---- MODULE Spec2Model ----
(***************************************************************************)
(* Model of the hybrid retrieval-and-answer pipeline of kyra:              *)
(*   backend/app/services/rag.py  (is_medical_question,                    *)
(*       get_rag_context_weighted, generate_response_with_gpt4o,           *)
(*       format_response_with_sources, convert_text_source_to_link,        *)
(*       answer)                                                           *)
(*   backend/app/api/v1/chat.py   (the try/except around answer())         *)
(*                                                                         *)
(* One behaviour is one chat request travelling through answer().          *)
(* Strings are sequences of tokens, so that strip / upper / lower / join / *)
(* "in" / replace are computed and not assumed.  Scores are integers in    *)
(* hundredths, weights in tenths, blended scores in thousandths.           *)
(* An Optional value is a sequence of length <= 1: None is <<>>.           *)
(***************************************************************************)
EXTENDS Integers, Sequences, FiniteSets, TLC

VARIABLES
    pc,                   \* position of the request in answer() / chat()
    db,                   \* the committed rows of the database
    req,                  \* Optional: the chat request being handled, with
                          \* the rows its database session has not committed
    http,                 \* the HTTP responses sent so far, in order
    query,                \* answer(query=...)
    original_query,       \* answer(original_query=...), Optional
    user,                 \* chat(): the authenticated user's record
    primary_weight,       \* get_rag_context_weighted(primary_weight=...), tenths
    context_weight,       \* get_rag_context_weighted(context_weight=...), tenths
    conversation_history, \* answer(conversation_history=...)
    user_context,         \* answer(user_context=...)
    calls,                \* requests received by the external services, in order
    classification,       \* Optional: the stripped, upper-cased classifier output
    is_medical,
    all_results,          \* locals of get_rag_context_weighted
    best_score,
    top_results,
    context_results,
    contextual_score,
    final_score,
    links,
    rag_context,          \* locals of answer()
    rag_score,
    sources,
    system_prompt,
    gpt_messages,
    response,
    formatted_response,
    final_sources,
    metadata,
    chat_sources,         \* chat(): the local `sources`, Optional (unbound = None)
    reply                 \* what the HTTP caller of chat() receives

ragFrame == <<all_results, best_score, top_results, context_results,
              contextual_score, final_score, links>>
ragOut   == <<rag_context, rag_score, sources>>
genVars  == <<system_prompt, gpt_messages, response>>
fmtVars  == <<formatted_response, final_sources, metadata>>
chatVars == <<chat_sources, reply>>
stored   == <<db, req, http>>
inputs   == <<stored, query, original_query, user, primary_weight, context_weight,
              conversation_history, user_context>>
vars     == <<pc, inputs, calls, classification, is_medical, ragFrame, ragOut,
              genVars, fmtVars, chatVars>>

(***************************************************************************)
(* Bounds of the model                                                     *)
(***************************************************************************)
MaxHist     == 3   \* longest conversation history handed to answer()
MaxCtxNodes == 1   \* nodes one contextual query returns
MaxExchanges == 11 \* exchanges already stored in a session when a run starts
MaxRequests == 2   \* HTTP requests handled in one run of the server
MaxAuthRequests == 3 \* register and update requests handled in one run

(***************************************************************************)
(* Program constants                                                       *)
(***************************************************************************)
SIM_THRESHOLD    == 300  \* 0.30, in thousandths
PRIMARY_WEIGHT   == 8    \* 0.8, in tenths
CONTEXT_WEIGHT   == 2    \* 0.2, in tenths
NODE_CUT_FACTOR  == 8    \* SIM_THRESHOLD * 0.8, factor in tenths
SIMILARITY_TOP_K == 3
TOP_RESULTS      == 6
QUERY_WINDOW     == 5    \* chat.py: conversation_history[-5:]
HISTORY_LIMIT    == 20   \* chat.py: .limit(20)
HISTORY_WINDOW   == 10   \* chat.py: history_messages[-10:]
CONTEXT_WINDOW   == 2

None    == <<>>
Some(x) == <<x>>
IsNone(o) == o = <<>>
Val(o)  == o[1]

Max(a, b) == IF a >= b THEN a ELSE b
Min(a, b) == IF a <= b THEN a ELSE b

RECURSIVE MaxOf(_)
MaxOf(s) == IF Len(s) = 1 THEN s[1] ELSE Max(s[1], MaxOf(Tail(s)))

Contains(s, tok) == \E i \in 1..Len(s) : s[i] = tok

(***************************************************************************)
(* Inputs of one request                                                   *)
(***************************************************************************)
\* chat.py builds the history from stored messages: roles alternate, the
\* content of the i-th stored message is the token "m<i>".
Turn(i) == [role    |-> IF i % 2 = 1 THEN "user" ELSE "assistant",
            content |-> <<CASE i = 1 -> "m1" [] i = 2 -> "m2" [] i = 3 -> "m3"
                            [] i = 4 -> "m4" [] OTHER -> "m5">>]
History(n) == [i \in 1..n |-> Turn(i)]
Histories == {History(n) : n \in 0..MaxHist}

\* the user records of chat(): the nine profile fields are texts, "" when unset
Profile(name, conditions, meds) ==
    [full_name |-> name, date_of_birth |-> <<>>, gender |-> <<>>, sex |-> <<>>,
     country |-> <<>>, address |-> <<>>, ethnic_group |-> <<>>,
     long_term_conditions |-> conditions, medications |-> meds]
UserRecord(consent, profile) ==
    [consent_to_data_storage |-> consent, profile |-> profile]
Users ==
    {UserRecord(FALSE, Profile(<<"Ann">>, <<"asthma">>, <<>>)),
     UserRecord(TRUE, Profile(<<>>, <<>>, <<>>)),
     UserRecord(TRUE, Profile(<<"Ann">>, <<"asthma">>, <<>>))}

\* build_user_context, chat.py lines 43-60: one entry per field that is set
InfoEntry(label, value) == IF value # <<>> THEN <<<<label>> \o value>> ELSE <<>>
Info(profile) ==
    InfoEntry("Full Name: ", profile.full_name)
        \o InfoEntry("Date of Birth: ", profile.date_of_birth)
        \o InfoEntry("Gender: ", profile.gender)
        \o InfoEntry("Sex: ", profile.sex)
        \o InfoEntry("Country: ", profile.country)
        \o InfoEntry("Address: ", profile.address)
        \o InfoEntry("Ethnic Group: ", profile.ethnic_group)
        \o InfoEntry("Long-term Medical Conditions: ", profile.long_term_conditions)
        \o InfoEntry("Medications: ", profile.medications)

\* " | ".join(info)
RECURSIVE JoinInfo(_)
JoinInfo(info) ==
    IF info = <<>> THEN <<>>
    ELSE IF Len(info) = 1 THEN info[1]
    ELSE info[1] \o <<" | ">> \o JoinInfo(Tail(info))

BACKGROUND_INTRO ==
    "The following is background information about the user. Use this to provide more personalized and relevant responses. "

\* build_user_context returns "" or a background text
MutBuildUserContextIgnoresConsent(u) ==
    IF Info(u.profile) = <<>> THEN <<>>
    ELSE <<BACKGROUND_INTRO>> \o JoinInfo(Info(u.profile))
BuildUserContext(u) ==
    IF ~u.consent_to_data_storage THEN <<>>
    ELSE IF Info(u.profile) = <<>> THEN <<>>
    ELSE <<BACKGROUND_INTRO>> \o JoinInfo(Info(u.profile))
UserContexts == {BuildUserContext(u) : u \in Users}

\* the weights of get_rag_context_weighted: its two callers pass none, so the
\* parameters take their default values
DefaultWeights == [primary |-> PRIMARY_WEIGHT, context |-> CONTEXT_WEIGHT]
Callers == {"answer", "get_rag_context"}
MutWeightsPassedBothPrimary(caller) ==
    [primary |-> PRIMARY_WEIGHT, context |-> PRIMARY_WEIGHT]
WeightsPassed(caller) == DefaultWeights

\* the current question (original_query)
current_message == <<"question">>

\* answer(), lines 538-539: original_query if original_query else query
MutCurrentMessageIsQuery(q, original) == q
CurrentMessage(q, original) ==
    IF ~IsNone(original) /\ Val(original) # <<>> THEN Val(original) ELSE q

\* chat.py lines 160-175: the query chat() hands to answer(): the message, or
\* with a history the last five turns and the message
RECURSIVE JoinLines(_)
JoinLines(lines) ==
    IF lines = <<>> THEN <<>>
    ELSE IF Len(lines) = 1 THEN lines[1]
    ELSE lines[1] \o <<"\n">> \o JoinLines(Tail(lines))
ContextMessages(history) ==
    LET recent == SubSeq(history, Max(1, Len(history) - QUERY_WINDOW + 1), Len(history))
    IN [i \in 1..Len(recent) |-> <<recent[i].role, ": ">> \o recent[i].content]
ChatQuery(history, message) ==
    IF history # <<>>
    THEN <<"Previous conversation:\n">> \o JoinLines(ContextMessages(history))
            \o <<"\n\nCurrent question: ">> \o message
    ELSE message

\* the database before anything is stored
UserIds == {1, 2}
EmptyDb == [users |-> [u \in UserIds |-> None], sessions |-> <<>>,
            messages |-> <<>>, unanswered |-> <<>>,
            session_seq |-> 0, message_seq |-> 0]

(***************************************************************************)
(* is_medical_question                                                     *)
(***************************************************************************)
WhiteSpace == {" ", "\n", "\t"}

\* str.upper(), character by character
UpperChar(c) ==
    CASE c = "m" -> "M" [] c = "e" -> "E" [] c = "d" -> "D" [] c = "i" -> "I"
      [] c = "c" -> "C" [] c = "a" -> "A" [] c = "l" -> "L" [] c = "g" -> "G"
      [] c = "n" -> "N" [] c = "r" -> "R" [] OTHER -> c
Upper(s) == [i \in 1..Len(s) |-> UpperChar(s[i])]

\* str.strip(): leading and trailing whitespace removed
RECURSIVE LStrip(_)
LStrip(s) == IF s # <<>> /\ s[1] \in WhiteSpace THEN LStrip(Tail(s)) ELSE s
RECURSIVE RStrip(_)
RStrip(s) == IF s # <<>> /\ s[Len(s)] \in WhiteSpace
             THEN RStrip(SubSeq(s, 1, Len(s) - 1)) ELSE s
Strip(s) == RStrip(LStrip(s))

MEDICAL == <<"M", "E", "D", "I", "C", "A", "L">>
GENERAL == <<"G", "E", "N", "E", "R", "A", "L">>

\* what the completion service may answer to the classifier prompt
ClassifierOutputs ==
    { MEDICAL,
      GENERAL,
      <<" ", "M", "e", "d", "i", "c", "a", "l", "\n">>,
      <<"g", "e", "n", "e", "r", "a", "l">>,
      <<"M", "E", "D", "I", "C", "A", "L", ".">>,
      <<"\"", "M", "E", "D", "I", "C", "A", "L", "\"">>,
      <<"G", "E", "N", "E", "R", "A", "L", ".">>,
      <<>> }

\* response.choices[0].message.content.strip().upper()
Normalise(content) == Upper(Strip(content))

\* the value is_medical_question returns; out is None when the call raised
MutIsMedicalRaiseGeneral(out) ==
    IF IsNone(out) THEN FALSE ELSE Normalise(Val(out)) = MEDICAL
IsMedicalQuestion(out) ==
    IF IsNone(out) THEN TRUE ELSE Normalise(Val(out)) = MEDICAL

Call(op, target, text, ok) == [op |-> op, target |-> target, text |-> text, ok |-> ok]

Init ==
    /\ pc = "classify"
    /\ db = EmptyDb /\ req = None /\ http = <<>>
    /\ user \in Users
    /\ primary_weight = WeightsPassed("answer").primary
    /\ context_weight = WeightsPassed("answer").context
    /\ conversation_history \in Histories
    /\ query = ChatQuery(conversation_history, current_message)
    /\ original_query = Some(current_message)
    /\ user_context = BuildUserContext(user)
    /\ calls = <<>>
    /\ classification = None
    /\ is_medical = FALSE
    /\ all_results = <<>>
    /\ best_score = 0
    /\ top_results = <<>>
    /\ context_results = <<>>
    /\ contextual_score = 0
    /\ final_score = 0
    /\ links = <<>>
    /\ rag_context = None
    /\ rag_score = 0
    /\ sources = <<>>
    /\ system_prompt = <<>>
    /\ gpt_messages = <<>>
    /\ response = None
    /\ formatted_response = None
    /\ final_sources = <<>>
    /\ metadata = None
    /\ chat_sources = None
    /\ reply = None

\* answer(), lines 538-556: classify, then initialise the retrieval outputs
MutClassifyRetries ==
    /\ pc = "classify"
    /\ Len(calls) < 2
    /\ \E out \in {None} \cup {Some(o) : o \in ClassifierOutputs} :
         /\ calls' = Append(calls, Call("classify", "completion", current_message,
                                        ~IsNone(out)))
         /\ classification' = IF IsNone(out) THEN None ELSE Some(Normalise(Val(out)))
         /\ is_medical' = IsMedicalQuestion(out)
         /\ pc' = IF IsNone(out) THEN "classify"
                  ELSE IF IsMedicalQuestion(out) THEN "rag_nhs" ELSE "generate"
    /\ rag_context' = None
    /\ sources' = <<>>
    /\ rag_score' = 0
    /\ UNCHANGED <<inputs, ragFrame, genVars, fmtVars, chatVars>>
Classify ==
    /\ pc = "classify"
    /\ \E out \in {None} \cup {Some(o) : o \in ClassifierOutputs} :
         /\ calls' = Append(calls, Call("classify", "completion", current_message,
                                        ~IsNone(out)))
         /\ classification' = IF IsNone(out) THEN None ELSE Some(Normalise(Val(out)))
         /\ is_medical' = IsMedicalQuestion(out)
         /\ pc' = IF IsMedicalQuestion(out) THEN "rag_nhs" ELSE "generate"
    /\ rag_context' = None
    /\ sources' = <<>>
    /\ rag_score' = 0
    /\ UNCHANGED <<inputs, ragFrame, genVars, fmtVars, chatVars>>

(***************************************************************************)
(* get_rag_context_weighted                                                *)
(***************************************************************************)
NHS_URL   == <<"https://", "www.", "nhs.uk", "/conditions/flu/">>
NHS_URL_2 == <<"https://", "www.", "nhs.uk", "/conditions/cough/">>
CRUK_URL  == <<"https://", "www.", "cancerresearchuk.org", "/about-cancer">>
OTHER_URL == <<"https://", "www.", "example.org", "/flu">>
NO_SOURCE == <<>>   \* metadata.get("source", "") of a node without a source

\* the nodes the NHS query engine can return (text, score, source)
Node(t, sc, src) == [text |-> t, score |-> sc, source |-> src]
NhsNodes ==
    { Node(<<"nhs_a">>, 70, NHS_URL),
      Node(<<"nhs_b">>, 37, NHS_URL),
      Node(<<"nhs_c">>, 24, NHS_URL_2),
      Node(<<"nhs_d">>, 20, NHS_URL_2),
      Node(<<"nhs_e">>, 0, NHS_URL) }
\* the nodes the Cancer Research UK query engine can return
CancerNodes ==
    { Node(<<"cr_a">>, 70, CRUK_URL),
      Node(<<"cr_b">>, 37, OTHER_URL),
      Node(<<>>, 70, NO_SOURCE),
      Node(<<>>, 37, CRUK_URL) }
\* the scores the nodes of a contextual query can carry
CtxScores == {2, 70}

\* A query returns at most similarity_top_k distinct nodes, best first.
QueryResults(universe) ==
    { s \in UNION {[1..n -> universe] : n \in 0..SIMILARITY_TOP_K} :
        /\ \A i, j \in 1..Len(s) : i < j => s[i] # s[j] /\ s[i].score >= s[j].score }
CtxQueryResults ==
    { s \in UNION {[1..n -> CtxScores] : n \in 0..MaxCtxNodes} :
        \A i, j \in 1..Len(s) : i < j => s[i] >= s[j] }
\* None: the query raised
NhsOutcomes    == {None} \cup {Some(s) : s \in QueryResults(NhsNodes)}
CancerOutcomes == {None} \cup {Some(s) : s \in QueryResults(CancerNodes)}
CtxOutcomes    == {None} \cup {Some(s) : s \in CtxQueryResults}

\* lines 127-136 / 144-153: the scored nodes of one result, tagged
\* line 129 / 146: `if node.score`; the score 0 stands for the falsy scores
\* (0.0 and None)
HasScore(nodes) == SelectSeq(nodes, LAMBDA n : n.score # 0)
Scored(nodes, collection) ==
    LET kept == HasScore(nodes)
    IN [i \in 1..Len(kept) |->
          [text |-> kept[i].text, score |-> kept[i].score,
           source |-> kept[i].source, collection |-> collection]]

\* the pool after one primary query; outcome None (the query raised) adds nothing
MutPoolAfterFailureClears(pool, outcome, collection) ==
    IF IsNone(outcome) THEN <<>> ELSE pool \o Scored(Val(outcome), collection)
PoolAfter(pool, outcome, collection) ==
    IF IsNone(outcome) THEN pool ELSE pool \o Scored(Val(outcome), collection)

\* line 136 / 153: best_score = max(best_score, node.score)
BestAfter(best, outcome) ==
    IF IsNone(outcome) \/ HasScore(Val(outcome)) = <<>> THEN best
    ELSE Max(best, MaxOf([i \in 1..Len(HasScore(Val(outcome))) |->
                             HasScore(Val(outcome))[i].score]))

\* list.sort(key=score, reverse=True): stable, descending
RECURSIVE InsertDesc(_, _)
InsertDesc(x, s) ==
    IF s = <<>> THEN <<x>>
    ELSE IF s[1].score >= x.score THEN <<s[1]>> \o InsertDesc(x, Tail(s))
    ELSE <<x>> \o s
RECURSIVE SortDesc(_)
SortDesc(s) ==
    IF s = <<>> THEN <<>>
    ELSE InsertDesc(s[Len(s)], SortDesc(SubSeq(s, 1, Len(s) - 1)))

\* lines 164-165
MutTopResultsArrivalOrder(pool) == SubSeq(pool, 1, Min(TOP_RESULTS, Len(pool)))
TopResults(pool) == SubSeq(SortDesc(pool), 1, Min(TOP_RESULTS, Len(pool)))

\* line 210 and 214: "nhs.uk" in url or "cancerresearchuk.org" in url
AllowListed(url) == Contains(url, "nhs.uk") \/ Contains(url, "cancerresearchuk.org")

\* lines 208-211
MutLinksUnfiltered(top) ==
    LET kept == SelectSeq(top, LAMBDA r : r.source # <<>>)
    IN [i \in 1..Len(kept) |-> kept[i].source]
Links(top) ==
    LET kept == SelectSeq(top, LAMBDA r : r.source # <<>> /\ AllowListed(r.source))
    IN [i \in 1..Len(kept) |-> kept[i].source]

\* line 204, in thousandths
MutBlendedPrimaryOnly(best, ctx) == primary_weight * best
BlendedScore(best, ctx) == primary_weight * best + context_weight * ctx

\* line 214: the domain filter passes
MutDomainFilterOff(lnks) == TRUE
DomainFilterPasses(lnks) == \E i \in 1..Len(lnks) : AllowListed(lnks[i])

\* line 219: the weighted similarity is high enough
MutThresholdExclusive(final) == final > SIM_THRESHOLD
ThresholdPasses(final) == final >= SIM_THRESHOLD

\* line 226: result['score'] >= SIM_THRESHOLD * 0.8
MutNodePassesCutAtThreshold(r) == r.score * 10 >= SIM_THRESHOLD
NodePassesCut(r) == r.score * 100 >= SIM_THRESHOLD * NODE_CUT_FACTOR

\* "\n\n".join(parts)
RECURSIVE Join(_, _)
Join(parts, sep) ==
    IF parts = <<>> THEN <<>>
    ELSE IF Len(parts) = 1 THEN parts[1]
    ELSE parts[1] \o <<sep>> \o Join(Tail(parts), sep)

\* lines 224-229
ContextText(top) ==
    LET kept == SelectSeq(top, NodePassesCut)
        context_parts == [i \in 1..Len(kept) |-> kept[i].text]
    IN IF context_parts # <<>> THEN Some(Join(context_parts, "\n\n")) ELSE None

\* lines 207-230: the value returned once the pool is not empty
RagReturn(top, final, lnks) ==
    IF ~DomainFilterPasses(lnks)
    THEN [context |-> None, score |-> 0, sources |-> lnks]
    ELSE IF ~ThresholdPasses(final)
    THEN [context |-> None, score |-> final, sources |-> lnks]
    ELSE [context |-> ContextText(top), score |-> final, sources |-> lnks]

\* lines 172-176: the contextual query text
MutRecentContextWholeHistory(history) ==
    [i \in 1..Len(history) |-> <<history[i].role, ":">> \o history[i].content]
RecentContext(history) ==
    LET recent == SubSeq(history, Max(1, Len(history) - CONTEXT_WINDOW + 1), Len(history))
    IN [i \in 1..Len(recent) |-> <<recent[i].role, ":">> \o recent[i].content]
ContextualQuery(history, current_query) ==
    <<"Context:">> \o Join(RecentContext(history), "|") \o <<"|", "Current:">>
        \o current_query

\* line 185 / 192: node.score or 0.0, for every node of the result
ContextAfter(results, outcome) ==
    IF IsNone(outcome) THEN results ELSE results \o Val(outcome)

\* line 169: a contextual query is made
MutUseContextAlways(history) == TRUE
UseContext(history) == Len(history) > 0

\* lines 203-230 as one step: score, sources, gate
Gate(top, best, ctx) ==
    /\ contextual_score' = ctx
    /\ final_score' = BlendedScore(best, ctx)
    /\ links' = Links(top)
    /\ LET r == RagReturn(top, BlendedScore(best, ctx), Links(top))
       IN /\ rag_context' = r.context
          /\ rag_score' = r.score
          /\ sources' = r.sources
    /\ pc' = "generate"

\* lines 124-139: the primary query against the NHS collection
QueryNhs ==
    /\ pc = "rag_nhs"
    /\ \E outcome \in NhsOutcomes :
         /\ calls' = Append(calls, Call("query", "nhs", current_message, ~IsNone(outcome)))
         /\ all_results' = PoolAfter(<<>>, outcome, "nhs")
         /\ best_score' = BestAfter(0, outcome)
    /\ pc' = "rag_cancer"
    /\ UNCHANGED <<inputs, classification, is_medical, top_results, context_results,
                   contextual_score, final_score, links, ragOut, genVars, fmtVars,
                   chatVars>>

\* lines 141-165, and lines 167-230 when there is no contextual query to make
QueryCancer ==
    /\ pc = "rag_cancer"
    /\ \E outcome \in CancerOutcomes :
         LET pool == PoolAfter(all_results, outcome, "cancer_research")
             best == BestAfter(best_score, outcome)
         IN /\ calls' = Append(calls, Call("query", "cancer_research", current_message,
                                           ~IsNone(outcome)))
            /\ all_results' = pool
            /\ best_score' = best
            /\ IF pool = <<>>
               THEN \* line 161: return None, 0.0, []
                    /\ rag_context' = None /\ rag_score' = 0 /\ sources' = <<>>
                    /\ pc' = "generate"
                    /\ UNCHANGED <<top_results, contextual_score, final_score, links>>
               ELSE /\ top_results' = TopResults(pool)
                    /\ IF UseContext(conversation_history)
                       THEN /\ pc' = "ctx_nhs"
                            /\ UNCHANGED <<contextual_score, final_score, links, ragOut>>
                       ELSE Gate(TopResults(pool), best, 0)
    /\ UNCHANGED <<inputs, classification, is_medical, context_results, genVars,
                   fmtVars, chatVars>>

\* lines 182-187: the contextual query against the NHS collection
CtxQueryNhs ==
    /\ pc = "ctx_nhs"
    /\ \E outcome \in CtxOutcomes :
         /\ calls' = Append(calls, Call("query", "nhs",
                              ContextualQuery(conversation_history, current_message),
                              ~IsNone(outcome)))
         /\ context_results' = ContextAfter(<<>>, outcome)
    /\ pc' = "ctx_cancer"
    /\ UNCHANGED <<inputs, classification, is_medical, all_results, best_score,
                   top_results, contextual_score, final_score, links, ragOut, genVars,
                   fmtVars, chatVars>>

\* lines 189-230: the contextual query against the Cancer Research UK collection,
\* then the blended score and the gate
CtxQueryCancer ==
    /\ pc = "ctx_cancer"
    /\ \E outcome \in CtxOutcomes :
         LET results == ContextAfter(context_results, outcome)
         IN /\ calls' = Append(calls, Call("query", "cancer_research",
                                 ContextualQuery(conversation_history, current_message),
                                 ~IsNone(outcome)))
            /\ context_results' = results
            /\ Gate(top_results, best_score,
                    IF results # <<>> THEN MaxOf(results) ELSE 0)
    /\ UNCHANGED <<inputs, classification, is_medical, all_results, best_score,
                   top_results, genVars, fmtVars, chatVars>>

(***************************************************************************)
(* generate_response_with_gpt4o                                            *)
(***************************************************************************)
Block(kind, body) == [kind |-> kind, body |-> body]

\* Python truthiness of an Optional[str]
Truthy(o) == ~IsNone(o) /\ Val(o) # <<>>

\* lines 296-320: the retrieved-context / no-RAG augmentation
MutAugmentationEvidenceOnly(context, medical) ==
    IF Truthy(context) THEN <<Block("evidence", Val(context))>> ELSE <<>>
MutAugmentationNoElif(context, medical) ==
    (IF Truthy(context) THEN <<Block("evidence", Val(context))>> ELSE <<>>)
        \o (IF medical THEN <<Block("no_evidence", <<>>)>> ELSE <<>>)
Augmentation(context, medical) ==
    IF Truthy(context) THEN <<Block("evidence", Val(context))>>
    ELSE IF medical THEN <<Block("no_evidence", <<>>)>>
    ELSE <<>>

\* lines 321-323
MutBackgroundAlways(medical, background) ==
    IF background # <<>> THEN <<Block("background", background)>> ELSE <<>>
Background(medical, background) ==
    IF medical /\ background # <<>> THEN <<Block("background", background)>> ELSE <<>>

\* lines 265-323
SystemPrompt(context, medical, background) ==
    <<Block("persona", <<>>)>> \o Augmentation(context, medical)
        \o Background(medical, background)

\* lines 326-328; the system message's content is the variable system_prompt
MutGptMessagesQuestionFirst(messages, message) ==
    <<[role |-> "system", content |-> <<"system_prompt">>]>>
        \o <<[role |-> "user", content |-> message]>> \o messages
GptMessages(messages, message) ==
    <<[role |-> "system", content |-> <<"system_prompt">>]>> \o messages
        \o <<[role |-> "user", content |-> message]>>

\* line 346
APOLOGY == <<<<"I'm having trouble responding right now. Please try again in a moment.">>>>

\* texts the completion service may generate: a sequence of lines of tokens
GenTexts ==
    { <<<<"answer">>>>,
      <<<<"answer">>, <<>>, <<"Sources:">>,
        <<"-", " ", "NHS.uk", " ", "-", " ", "Flu">>, <<"-", " ", "WHO">>>>,
      <<<<"answer">>, <<" ", "sources:">>, <<"-", " ", "WHO">>, <<"-", " ", "WHO">>>>,
      <<<<"answer">>, <<"Sources:">>, <<"see", " ", "your", " ", "GP">>>> }
\* "raise": the call raised; "null": the message came without content
GenOutcomes == {[kind |-> "raise", text |-> <<>>], [kind |-> "null", text |-> <<>>]}
                 \cup {[kind |-> "text", text |-> t] : t \in GenTexts}

\* lines 335-346: the value generate_response_with_gpt4o returns
MutGeneratedRaiseEscapes(outcome) ==
    IF outcome.kind = "text" THEN Some(outcome.text) ELSE None
Generated(outcome) ==
    IF outcome.kind = "raise" THEN Some(APOLOGY)
    ELSE IF outcome.kind = "null" THEN None
    ELSE Some(outcome.text)

(***************************************************************************)
(* format_response_with_sources, convert_text_source_to_link               *)
(***************************************************************************)
KB_HEADER      == "**Sources (Kyra's Knowledge Base):**"
GENERAL_HEADER == "**Sources (General Medical Knowledge - GPT-4o):**"
NOTE           == "**Note:** This response is based on general medical knowledge"

\* str.lower(), token by token
LowerTok(t) ==
    CASE t = "Sources:" -> "sources:" [] t = "SOURCES:" -> "sources:"
      [] t = "NHS.uk" -> "nhs.uk" [] t = "Mayo Clinic" -> "mayo clinic"
      [] t = "CDC" -> "cdc" [] t = "WebMD" -> "webmd"
      [] t = "MedlinePlus" -> "medlineplus"
      [] t = "Cancer Research UK" -> "cancer research"
      [] t = "WHO" -> "who" [] t = "Flu" -> "flu" [] t = "GP" -> "gp"
      [] OTHER -> t
Lower(s) == [i \in 1..Len(s) |-> LowerTok(s[i])]

\* list(dict.fromkeys(xs)): duplicates removed, first occurrences kept in order
RECURSIVE MutDedupKeepLast(_)
MutDedupKeepLast(s) ==
    IF s = <<>> THEN <<>>
    ELSE IF Contains(Tail(s), s[1]) THEN MutDedupKeepLast(Tail(s))
    ELSE <<s[1]>> \o MutDedupKeepLast(Tail(s))
RECURSIVE Dedup(_)
Dedup(s) ==
    IF s = <<>> THEN <<>>
    ELSE LET d == Dedup(SubSeq(s, 1, Len(s) - 1))
         IN IF Contains(d, s[Len(s)]) THEN d ELSE Append(d, s[Len(s)])

\* the tokens after the first "-" (source_text.split('-', 1)[1])
RECURSIVE AfterDash(_)
AfterDash(s) ==
    IF s = <<>> THEN <<>> ELSE IF s[1] = "-" THEN Tail(s) ELSE AfterDash(Tail(s))

\* topic.lower().replace(' ', '-').replace(',', '').replace('(', '').replace(')', '')
Slug(topic) ==
    LET kept == SelectSeq(Lower(topic), LAMBDA t : t \notin {",", "(", ")"})
    IN [i \in 1..Len(kept) |-> IF kept[i] = " " THEN "-" ELSE kept[i]]

Link(text, url) == <<"[">> \o text \o <<"](">> \o url \o <<")">>

\* lines 429-505
ConvertTextSourceToLink(source_text) ==
    LET source_lower == Lower(source_text)
        dash  == Contains(source_text, "-")
        slug  == Slug(Strip(AfterDash(source_text)))
    IN CASE Contains(source_lower, "nhs.uk") ->
              Link(source_text, IF dash THEN <<"https://www.nhs.uk/conditions/">> \o slug \o <<"/">>
                                ELSE <<"https://www.nhs.uk/">>)
         [] Contains(source_lower, "mayo clinic") ->
              Link(source_text, IF dash THEN <<"https://www.mayoclinic.org/diseases-conditions/">>
                                             \o slug \o <<"/symptoms-causes/syc-20354349">>
                                ELSE <<"https://www.mayoclinic.org/">>)
         [] Contains(source_lower, "cdc") ->
              Link(source_text, <<"https://www.cdc.gov/">>)
         [] Contains(source_lower, "webmd") ->
              Link(source_text, IF dash THEN <<"https://www.webmd.com/a-to-z-guides/">> \o slug
                                ELSE <<"https://www.webmd.com/">>)
         [] Contains(source_lower, "medlineplus") ->
              Link(source_text, IF dash
                                THEN <<"https://medlineplus.gov/">>
                                     \o SelectSeq(slug, LAMBDA t : t # "-") \o <<".html">>
                                ELSE <<"https://medlineplus.gov/">>)
         [] Contains(source_lower, "cancer research")
              \/ Contains(source_lower, "cancerresearchuk") ->
              Link(source_text, IF dash THEN <<"https://www.cancerresearchuk.org/about-cancer/">>
                                             \o slug
                                ELSE <<"https://www.cancerresearchuk.org/">>)
         [] OTHER -> source_text

\* lines 369-383: the knowledge-base section appended to the answer
SourceBullet(source) ==
    IF source # <<>> /\ source[1] \in {"http://", "https://"}
    THEN <<"-", " ">> \o Link(Tail(source), source)
    ELSE <<"-", " ">> \o source
KnowledgeBaseSection(unique_sources) ==
    <<<<>>, <<KB_HEADER>>>> \o [i \in 1..Len(unique_sources) |-> SourceBullet(unique_sources[i])]
        \o <<<<>>>>

\* line 391: "Sources:" in response or "sources:" in response.lower()
HasSourcesMarker(text) ==
    \E i \in 1..Len(text) : Contains(Lower(text[i]), "sources:")

\* lines 396-411: the loop over the lines, from line i on
RECURSIVE ScanSources(_, _, _, _)
ScanSources(lines, i, in_sources, acc) ==
    IF i > Len(lines) THEN acc
    ELSE LET line_stripped == Strip(lines[i])
         IN IF line_stripped # <<>> /\ LowerTok(line_stripped[1]) = "sources:"
            THEN ScanSources(lines, i + 1, TRUE, acc)
            ELSE IF in_sources /\ line_stripped # <<>> /\ line_stripped[1] = "-"
            THEN LET source_text == Strip(Tail(line_stripped))
                     clickable_link == ConvertTextSourceToLink(source_text)
                 IN ScanSources(lines, i + 1, TRUE,
                      [gpt_sources |-> Append(acc.gpt_sources, source_text),
                       source_replacements |->
                          IF clickable_link # source_text
                          THEN Append(acc.source_replacements,
                                      <<lines[i], <<"-", " ">> \o clickable_link>>)
                          ELSE acc.source_replacements])
            ELSE IF in_sources /\ line_stripped # <<>>
            THEN acc
            ELSE ScanSources(lines, i + 1, in_sources, acc)

\* str.replace(old, new) within one line: occurrences left to right
RECURSIVE ReplaceInLine(_, _, _)
ReplaceInLine(line, old, new) ==
    IF Len(line) < Len(old) \/ old = <<>> THEN line
    ELSE IF SubSeq(line, 1, Len(old)) = old
    THEN new \o ReplaceInLine(SubSeq(line, Len(old) + 1, Len(line)), old, new)
    ELSE <<line[1]>> \o ReplaceInLine(Tail(line), old, new)
ReplaceText(text, old, new) == [i \in 1..Len(text) |-> ReplaceInLine(text[i], old, new)]

\* lines 414-415
RECURSIVE ApplyReplacements(_, _)
ApplyReplacements(text, replacements) ==
    IF replacements = <<>> THEN text
    ELSE ApplyReplacements(ReplaceText(text, replacements[1][1], replacements[1][2]),
                           Tail(replacements))

\* lines 386-427: the branch taken when no retrieval evidence was used
FormatWithoutRag(text, srcs) ==
    LET scanned == IF HasSourcesMarker(text)
                   THEN ScanSources(text, 1, FALSE,
                                    [gpt_sources |-> <<>>, source_replacements |-> <<>>])
                   ELSE [gpt_sources |-> <<>>, source_replacements |-> <<>>]
        linked == ApplyReplacements(text, scanned.source_replacements)
        unique_gpt_sources == Dedup(scanned.gpt_sources)
    IN IF unique_gpt_sources # <<>>
       THEN [text |-> ReplaceText(linked, <<"Sources:">>, <<GENERAL_HEADER>>),
             sources |-> unique_gpt_sources]
       ELSE [text |-> linked \o <<<<>>, <<>>, <<NOTE>>>>, sources |-> srcs]

\* lines 363-385: the branch taken when retrieval evidence was used
FormatWithRag(text, srcs) ==
    [text |-> text \o KnowledgeBaseSection(Dedup(srcs)), sources |-> Dedup(srcs)]

\* lines 359-361: non-medical answers are returned as they are
PassThrough(text, srcs) == [text |-> text, sources |-> srcs]

\* lines 351-427
FormatResponseWithSources(text, srcs, meta) ==
    IF ~meta.is_medical THEN PassThrough(text, srcs)
    ELSE IF meta.used_rag /\ srcs # <<>> THEN FormatWithRag(text, srcs)
    ELSE FormatWithoutRag(text, srcs)

(***************************************************************************)
(* answer(), from the generation call on, and the caller in chat()         *)
(***************************************************************************)
\* lines 586 and 595: "used_rag": rag_context is not None
UsedRag(context) == ~IsNone(context)

\* lines 584-590: the metadata handed to the formatter
FormatMetadata(medical, context, score, messages) ==
    [is_medical |-> medical, used_rag |-> UsedRag(context), rag_score |-> score,
     model_used |-> "gpt-4o", conversation_length |-> Len(messages)]

\* lines 593-600: the metadata returned
MutAnswerMetadataCountsQuestion(medical, context, score, messages, final) ==
    [is_medical |-> medical, used_rag |-> UsedRag(context), rag_score |-> score,
     model_used |-> "gpt-4o", conversation_length |-> Len(messages) + 1,
     sources_count |-> Len(final)]
AnswerMetadata(medical, context, score, messages, final) ==
    [is_medical |-> medical, used_rag |-> UsedRag(context), rag_score |-> score,
     model_used |-> "gpt-4o", conversation_length |-> Len(messages),
     sources_count |-> Len(final)]

\* chat.py lines 244-258: the reply of the except branch
ErrorReply ==
    [kind |-> "reply", response |-> APOLOGY, sources |-> <<>>,
     metadata |-> [error |-> TRUE]]
\* an exception that leaves chat(): the caller gets no reply body
UnhandledError ==
    [kind |-> "unhandled_exception", response |-> <<>>, sources |-> <<>>,
     metadata |-> [error |-> TRUE]]

\* lines 576-581: the prompt, the generation call, and the preview of the
\* response; response[:200] raises when the response is None
Generate ==
    /\ pc = "generate"
    /\ system_prompt' = SystemPrompt(rag_context, is_medical, user_context)
    /\ gpt_messages' = GptMessages(conversation_history, current_message)
    /\ \E outcome \in GenOutcomes :
         /\ calls' = Append(calls, Call("complete", "completion", current_message,
                                        outcome.kind # "raise"))
         /\ response' = Generated(outcome)
         /\ pc' = IF IsNone(Generated(outcome)) THEN "answer_raised" ELSE "format"
    \* the frame of get_rag_context_weighted is gone
    /\ all_results' = <<>> /\ best_score' = 0 /\ top_results' = <<>>
    /\ context_results' = <<>> /\ contextual_score' = 0 /\ final_score' = 0
    /\ links' = <<>>
    /\ UNCHANGED <<inputs, classification, is_medical, ragOut, fmtVars, chatVars>>

\* lines 583-604
Format ==
    /\ pc = "format"
    /\ LET f == FormatResponseWithSources(Val(response), sources,
                   FormatMetadata(is_medical, rag_context, rag_score,
                                  conversation_history))
       IN /\ formatted_response' = Some(f.text)
          /\ final_sources' = f.sources
          /\ metadata' = Some(AnswerMetadata(is_medical, rag_context, rag_score,
                                             conversation_history, f.sources))
    /\ pc' = "answer_returned"
    /\ UNCHANGED <<inputs, calls, classification, is_medical, ragFrame, ragOut,
                   genVars, chatVars>>

\* chat.py lines 184-189 and 260-306: answer() returned (the stored
\* messages are not part of this specification)
ChatReturn ==
    /\ pc = "answer_returned"
    /\ chat_sources' = Some(final_sources)
    /\ reply' = Some([kind |-> "reply", response |-> Val(formatted_response),
                      sources |-> final_sources, metadata |-> Val(metadata)])
    /\ pc' = "done"
    /\ UNCHANGED <<inputs, calls, classification, is_medical, ragFrame, ragOut,
                   genVars, fmtVars>>

\* chat.py lines 214-258: answer() raised; line 223 reads the local `sources`,
\* which is unbound unless answer() had returned
ChatExcept ==
    /\ pc = "answer_raised"
    /\ reply' = IF IsNone(chat_sources) THEN Some(UnhandledError) ELSE Some(ErrorReply)
    /\ pc' = "done"
    /\ UNCHANGED <<inputs, calls, classification, is_medical, ragFrame, ragOut,
                   genVars, fmtVars, chat_sources>>

Next ==
    \/ Classify
    \/ QueryNhs
    \/ QueryCancer
    \/ CtxQueryNhs
    \/ CtxQueryCancer
    \/ Generate
    \/ Format
    \/ ChatReturn
    \/ ChatExcept

Spec == Init /\ [][Next]_vars

(***************************************************************************)
(* The weighted score of get_rag_context_weighted on its own: either       *)
(* caller's weights, every pair of scores in [0, 1] (hundredths)           *)
(***************************************************************************)
InitWeighted ==
    /\ pc = "blend"
    /\ db = EmptyDb /\ req = None /\ http = <<>>
    /\ query = current_message
    /\ original_query = None
    /\ user \in Users
    /\ \E caller \in Callers :
         /\ primary_weight = WeightsPassed(caller).primary
         /\ context_weight = WeightsPassed(caller).context
    /\ conversation_history = <<>>
    /\ user_context = BuildUserContext(user)
    /\ calls = <<>>
    /\ classification = None
    /\ is_medical = TRUE
    /\ all_results = <<>>
    /\ best_score \in 0..100
    /\ top_results = <<>>
    /\ context_results = <<>>
    /\ contextual_score \in 0..100
    /\ final_score = 0
    /\ links = <<>>
    /\ rag_context = None
    /\ rag_score = 0
    /\ sources = <<>>
    /\ system_prompt = <<>>
    /\ gpt_messages = <<>>
    /\ response = None
    /\ formatted_response = None
    /\ final_sources = <<>>
    /\ metadata = None
    /\ chat_sources = None
    /\ reply = None

\* rag.py line 204
Blend ==
    /\ pc = "blend"
    /\ final_score' = BlendedScore(best_score, contextual_score)
    /\ pc' = "blended"
    /\ UNCHANGED <<inputs, calls, classification, is_medical, all_results, best_score,
                   top_results, context_results, contextual_score, links, ragOut,
                   genVars, fmtVars, chatVars>>

NextWeighted == Blend

SpecWeighted == InitWeighted /\ [][NextWeighted]_vars

(***************************************************************************)
(* generate_response_with_gpt4o on its own, called as answer() calls it:   *)
(* every history, the query with or without an original query, a medical   *)
(* question with or without evidence or a general one, every user          *)
(***************************************************************************)
InitGenerate ==
    /\ pc = "generate_call"
    /\ db = EmptyDb /\ req = None /\ http = <<>>
    /\ user \in Users
    /\ primary_weight = DefaultWeights.primary
    /\ context_weight = DefaultWeights.context
    /\ conversation_history \in Histories
    /\ query = ChatQuery(conversation_history, current_message)
    /\ original_query \in {None, Some(<<>>), Some(current_message)}
    /\ user_context = BuildUserContext(user)
    /\ calls = <<>>
    /\ classification = None
    /\ is_medical \in BOOLEAN
    /\ all_results = <<>>
    /\ best_score = 0
    /\ top_results = <<>>
    /\ context_results = <<>>
    /\ contextual_score = 0
    /\ final_score = 0
    /\ links = <<>>
    /\ rag_context \in IF is_medical THEN {None, Some(<<>>), Some(<<"nhs_a">>)} ELSE {None}
    /\ rag_score = 0
    /\ sources = <<>>
    /\ system_prompt = <<>>
    /\ gpt_messages = <<>>
    /\ response = None
    /\ formatted_response = None
    /\ final_sources = <<>>
    /\ metadata = None
    /\ chat_sources = None
    /\ reply = None

\* answer() lines 538-549 and 575-578, generate_response_with_gpt4o lines 252-346
GenerateCall ==
    /\ pc = "generate_call"
    /\ system_prompt' = SystemPrompt(rag_context, is_medical, user_context)
    /\ gpt_messages' = GptMessages(conversation_history,
                                   CurrentMessage(query, original_query))
    /\ \E outcome \in GenOutcomes :
         /\ calls' = Append(calls, Call("complete", "completion",
                                        CurrentMessage(query, original_query),
                                        outcome.kind # "raise"))
         /\ response' = Generated(outcome)
    /\ pc' = "generate_done"
    /\ UNCHANGED <<inputs, classification, is_medical, ragFrame, ragOut, fmtVars,
                   chatVars>>

NextGenerate == GenerateCall

SpecGenerate == InitGenerate /\ [][NextGenerate]_vars

(***************************************************************************)
(* The HTTP handlers over the database: chat(), get_session_messages(),    *)
(* delete_chat_session(), register(), update_me().  answer() is one step   *)
(* of chat() here, with the kinds of result the specification Spec gives   *)
(* it.  Rows are kept in insertion order, which is their created_at order. *)
(* One writing request is handled at a time; reads may come in between.    *)
(***************************************************************************)
answerVars == <<pc, query, original_query, user, primary_weight, context_weight,
                conversation_history, user_context, calls, classification,
                is_medical, ragFrame, ragOut, genVars, fmtVars, chatVars>>

\* no call of answer() is modelled in detail
AnswerIdle ==
    /\ pc = "server"
    /\ query = <<>> /\ original_query = None
    /\ user = UserRecord(FALSE, Profile(<<>>, <<>>, <<>>))
    /\ primary_weight = DefaultWeights.primary
    /\ context_weight = DefaultWeights.context
    /\ conversation_history = <<>> /\ user_context = <<>>
    /\ calls = <<>> /\ classification = None /\ is_medical = FALSE
    /\ all_results = <<>> /\ best_score = 0 /\ top_results = <<>>
    /\ context_results = <<>> /\ contextual_score = 0 /\ final_score = 0
    /\ links = <<>>
    /\ rag_context = None /\ rag_score = 0 /\ sources = <<>>
    /\ system_prompt = <<>> /\ gpt_messages = <<>> /\ response = None
    /\ formatted_response = None /\ final_sources = <<>> /\ metadata = None
    /\ chat_sources = None /\ reply = None

\* models.py: the rows of chat_sessions, messages and unanswered_queries; a
\* message's content is identified with its id
SessionRow(id, uid) == [id |-> id, user_id |-> uid]
MessageRow(id, sid, role) == [id |-> id, session_id |-> sid, role |-> role, content |-> id]
UnansweredRow(sid, reason) == [session_id |-> sid, reason |-> reason]
Response(op, uid, status, sid, messages) ==
    [op |-> op, user_id |-> uid, status |-> status, session_id |-> sid,
     messages |-> messages]

\* select(ChatSession).where(id == sid, user_id == uid), scalar_one_or_none()
MutFindSessionAnyUser(sessions, sid, uid) ==
    LET found == SelectSeq(sessions, LAMBDA r : r.id = sid)
    IN IF found = <<>> THEN None ELSE Some(found[1])
FindSession(sessions, sid, uid) ==
    LET found == SelectSeq(sessions, LAMBDA r : r.id = sid /\ r.user_id = uid)
    IN IF found = <<>> THEN None ELSE Some(found[1])

\* select(Message).where(session_id == sid).order_by(created_at)
SessionMessages(messages, sid) == SelectSeq(messages, LAMBDA m : m.session_id = sid)

\* chat.py lines 101-107: the same with .limit(20)
HistoryMessages(messages, sid) ==
    LET all == SessionMessages(messages, sid)
    IN SubSeq(all, 1, Min(HISTORY_LIMIT, Len(all)))

\* chat.py lines 112-118: history_messages[-10:] as role/content pairs
ConversationHistory(history_messages) ==
    LET n == Len(history_messages)
        recent == SubSeq(history_messages, Max(1, n - HISTORY_WINDOW + 1), n)
    IN [i \in 1..Len(recent) |-> [role |-> recent[i].role, content |-> recent[i].content]]

\* db.commit(): the pending rows are inserted, ids in order
Commit(d, rows, unanswered) ==
    [d EXCEPT !.messages = @ \o [i \in 1..Len(rows) |->
                                   MessageRow(d.message_seq + i, rows[i].session_id,
                                              rows[i].role)],
              !.message_seq = @ + Len(rows),
              !.unanswered = @ \o unanswered]

\* requests being handled or answered
RequestsStarted == Len(http) + (IF req = None THEN 0 ELSE 1)

\* what answer() does for chat(): it returns a general answer, a medical answer
\* with or without evidence, or raises
AnswerOutcomes == {"general", "medical_rag", "medical_no_rag", "raised"}

\* chat.py lines 70-155: the session is found or created (and committed), the
\* history is read, the user message is added to the database session
ChatBegin(uid, session_id) ==
    /\ req = None
    /\ RequestsStarted < MaxRequests
    /\ LET found == IF session_id = None THEN None
                    ELSE FindSession(db.sessions, Val(session_id), uid)
           new == SessionRow(db.session_seq + 1, uid)
           session == IF found = None THEN new ELSE Val(found)
           db1 == IF found = None
                  THEN [db EXCEPT !.sessions = Append(@, new), !.session_seq = @ + 1]
                  ELSE db
       IN /\ db' = db1
          /\ req' = Some([user_id |-> uid, requested |-> session_id,
                          session_id |-> session.id,
                          history |-> ConversationHistory(
                                         HistoryMessages(db1.messages, session.id)),
                          pending |-> <<[session_id |-> session.id, role |-> "user"]>>,
                          stage |-> "answer"])
    /\ UNCHANGED <<http, answerVars>>

\* chat.py lines 157-212: answer() and the unanswered query, which is
\* committed at once; lines 214-225 when answer() raised: the except branch
\* reads the unbound local `sources`, the handler fails and nothing it added
\* is committed
ChatAnswer ==
    /\ req # None
    /\ Val(req).stage = "answer"
    /\ \E outcome \in AnswerOutcomes :
         CASE outcome = "raised" ->
                /\ db' = db
                /\ req' = None
                /\ http' = Append(http, Response("chat", Val(req).user_id, 500,
                                                 Val(req).session_id, <<>>))
           [] outcome = "medical_no_rag" ->
                /\ db' = Commit(db, Val(req).pending,
                                <<UnansweredRow(Val(req).session_id,
                                                "medical_question_no_rag")>>)
                /\ req' = Some([Val(req) EXCEPT !.pending = <<>>, !.stage = "finish"])
                /\ http' = http
           [] OTHER ->
                /\ db' = db
                /\ req' = Some([Val(req) EXCEPT !.stage = "finish"])
                /\ http' = http
    /\ UNCHANGED answerVars

\* chat.py lines 260-306: the assistant message is added and committed
ChatFinish ==
    /\ req # None
    /\ Val(req).stage = "finish"
    /\ LET rows == Append(Val(req).pending,
                          [session_id |-> Val(req).session_id, role |-> "assistant"])
           db1 == Commit(db, rows, <<>>)
       IN /\ db' = db1
          /\ http' = Append(http, Response("chat", Val(req).user_id, 200,
                                           Val(req).session_id,
                                           SessionMessages(db1.messages,
                                                           Val(req).session_id)))
    /\ req' = None
    /\ UNCHANGED answerVars

\* chat.py lines 339-373
GetSessionMessages(uid, session_id) ==
    /\ RequestsStarted < MaxRequests
    /\ http' = Append(http,
                  IF FindSession(db.sessions, session_id, uid) = None
                  THEN Response("get", uid, 404, session_id, <<>>)
                  ELSE Response("get", uid, 200, session_id,
                                SessionMessages(db.messages, session_id)))
    /\ UNCHANGED <<db, req, answerVars>>

\* chat.py lines 375-398; the rows of unanswered_queries that refer to the
\* session stay: with foreign keys enforced the delete then fails
DeleteChatSession(uid, session_id) ==
    /\ req = None
    /\ RequestsStarted < MaxRequests
    /\ IF FindSession(db.sessions, session_id, uid) = None
       THEN /\ http' = Append(http, Response("delete", uid, 404, session_id, <<>>))
            /\ db' = db
       ELSE \/ /\ db' = [db EXCEPT
                           !.messages = SelectSeq(@, LAMBDA m : m.session_id # session_id),
                           !.sessions = SelectSeq(@, LAMBDA r : r.id # session_id)]
               /\ http' = Append(http, Response("delete", uid, 200, session_id, <<>>))
            \/ /\ \E i \in 1..Len(db.unanswered) :
                     db.unanswered[i].session_id = session_id
               /\ db' = db
               /\ http' = Append(http, Response("delete", uid, 500, session_id, <<>>))
    /\ UNCHANGED <<req, answerVars>>

\* the database after user 1 had k exchanges in one session: what k chat
\* requests with general answers leave behind
StoredDb(k) ==
    [users |-> [u \in UserIds |->
                   Some(UserRecord(u = 1, Profile(<<>>, <<>>, <<>>)))],
     sessions |-> IF k = 0 THEN <<>> ELSE <<SessionRow(1, 1)>>,
     messages |-> [i \in 1..(2 * k) |->
                     MessageRow(i, 1, IF i % 2 = 1 THEN "user" ELSE "assistant")],
     unanswered |-> <<>>,
     session_seq |-> IF k = 0 THEN 0 ELSE 1,
     message_seq |-> 2 * k]

InitChat ==
    /\ AnswerIdle
    /\ db \in {StoredDb(k) : k \in 0..MaxExchanges}
    /\ req = None
    /\ http = <<>>

NextChat ==
    \/ \E uid \in UserIds, session_id \in {None} \cup {Some(i) : i \in 1..db.session_seq} :
          ChatBegin(uid, session_id)
    \/ ChatAnswer
    \/ ChatFinish
    \/ \E uid \in UserIds, session_id \in 1..db.session_seq :
          GetSessionMessages(uid, session_id)
    \/ \E uid \in UserIds, session_id \in 1..db.session_seq :
          DeleteChatSession(uid, session_id)

SpecChat == InitChat /\ [][NextChat]_vars

(***************************************************************************)
(* Vocabulary of the properties                                            *)
(***************************************************************************)
\* get_rag_context_weighted has just returned to answer(); its locals are
\* still in place
RagReturned == pc = "generate" /\ is_medical
\* answer() has returned its triple
AnswerReturned == ~IsNone(metadata)
\* the request is over
Done == pc = "done"

\* the source URLs of the two allow-listed domains
OnAllowList(url) == url \in {NHS_URL, NHS_URL_2, CRUK_URL}
HasAllowListedCandidate == \E i \in 1..Len(top_results) : OnAllowList(top_results[i].source)

ScoresOf(nodes) == {nodes[i].score : i \in 1..Len(nodes)}
MaxIn(S) == IF S = {} THEN 0 ELSE CHOOSE m \in S : \A x \in S : x <= m
\* the maximum primary-query score and the maximum contextual-query score
PrimaryScore == MaxIn(ScoresOf(all_results))
ContextualScore == MaxIn({context_results[i] : i \in 1..Len(context_results)})
Blended == PRIMARY_WEIGHT * PrimaryScore + CONTEXT_WEIGHT * ContextualScore
\* some candidate's own score reaches 0.8 * threshold (0.24)
SomeCandidatePassesCut == \E i \in 1..Len(top_results) : top_results[i].score >= 24

QueryCalls(target) ==
    {i \in 1..Len(calls) : calls[i].op = "query" /\ calls[i].target = target}
PrimaryCalls(target) == {i \in QueryCalls(target) : calls[i].text = current_message}
ContextCalls(target) == QueryCalls(target) \ PrimaryCalls(target)
ClassifyCalls == {i \in 1..Len(calls) : calls[i].op = "classify"}
GenerateCalls == {i \in 1..Len(calls) : calls[i].op = "complete"}
ClassifyRaised == \E i \in ClassifyCalls : ~calls[i].ok
GenerationRaised == \E i \in GenerateCalls : ~calls[i].ok
PrimaryFailed(target) == \E i \in PrimaryCalls(target) : ~calls[i].ok

\* metadata.used_rag tells whether retrieval returned a context
UsedRagReported == AnswerReturned => (Val(metadata).used_rag <=> ~IsNone(rag_context))

(***************************************************************************)
(* C1                                                                      *)
(***************************************************************************)
\* C1 (as stated): for a medical request, retrieval returns a context, and
\* answer() reports used_rag, if and only if some candidate node has an
\* allow-listed source and the blended score is >= 0.30.
C1_AsStated ==
    /\ RagReturned =>
         (~IsNone(rag_context) <=> (HasAllowListedCandidate /\ Blended >= SIM_THRESHOLD))
    /\ UsedRagReported

\* C1 (amended): for a medical request, retrieval returns a context, and
\* answer() reports used_rag, if and only if some candidate node has an
\* allow-listed source, the blended score is >= 0.30 (0.30 included) and some
\* candidate node's own score is >= 0.24.
C1_EvidenceGate ==
    /\ RagReturned =>
         (~IsNone(rag_context) <=>
            (HasAllowListedCandidate /\ Blended >= SIM_THRESHOLD /\ SomeCandidatePassesCut))
    /\ UsedRagReported

\* evidence is used at a blended score of exactly 0.30
C1_Witness == RagReturned /\ Blended = SIM_THRESHOLD /\ ~IsNone(rag_context)

(***************************************************************************)
(* C2                                                                      *)
(***************************************************************************)
\* C2: when the generation call raises, the request's result is exactly the
\* apology text, sources = [] and metadata carrying error = true.
C2_GenerationFailureReply ==
    (Done /\ GenerationRaised) =>
        /\ Val(reply).kind = "reply"
        /\ Val(reply).response = APOLOGY
        /\ Val(reply).sources = <<>>
        /\ "error" \in DOMAIN Val(reply).metadata
        /\ Val(reply).metadata.error

(***************************************************************************)
(* C3                                                                      *)
(***************************************************************************)
\* C3: an exception that leaves answer() is caught at the boundary and the
\* caller receives the apology reply with metadata.error = true and empty
\* sources; the request never ends in an unhandled error.
C3_LastResortCatch ==
    Done =>
        /\ Val(reply).kind # "unhandled_exception"
        /\ ~AnswerReturned =>
             /\ Val(reply).response = APOLOGY
             /\ Val(reply).sources = <<>>
             /\ "error" \in DOMAIN Val(reply).metadata

(***************************************************************************)
(* C4                                                                      *)
(***************************************************************************)
\* C4: when the classification call raises, the question is classified
\* MEDICAL, retrieval is the next stage, metadata.is_medical is true, and the
\* classification call is made once only.
C4_ClassifierFailureIsMedical ==
    ClassifyRaised =>
        /\ is_medical
        /\ Cardinality(ClassifyCalls) = 1
        /\ pc = "rag_nhs" \/ (Len(calls) >= 2 /\ calls[2].op = "query")
        /\ AnswerReturned => Val(metadata).is_medical

C4_Witness == ClassifyRaised /\ Done /\ AnswerReturned

(***************************************************************************)
(* C5                                                                      *)
(***************************************************************************)
\* C5: a classifier output that, trimmed and upper-cased, is neither MEDICAL
\* nor GENERAL classifies the question MEDICAL.
C5_UnparseableIsMedical ==
    (~IsNone(classification) /\ Val(classification) \notin {MEDICAL, GENERAL})
        => is_medical

(***************************************************************************)
(* C6                                                                      *)
(***************************************************************************)
\* C6 (as stated): on every return path that pooled a node, the returned
\* score, and metadata.rag_score, is the blended score.
C6_AsStated ==
    /\ (RagReturned /\ all_results # <<>>) => rag_score = Blended
    /\ AnswerReturned => Val(metadata).rag_score = rag_score

\* C6 (amended): on every return path that pooled a node, the returned score,
\* and metadata.rag_score, is the blended score when some candidate has an
\* allow-listed source, and 0 when none has.
C6_ReturnedScore ==
    /\ (RagReturned /\ all_results # <<>>) =>
         rag_score = IF HasAllowListedCandidate THEN Blended ELSE 0
    /\ AnswerReturned => Val(metadata).rag_score = rag_score

\* a below-threshold return whose score has a contextual part
C6_Witness ==
    /\ RagReturned /\ HasAllowListedCandidate /\ ContextualScore > 0
    /\ IsNone(rag_context) /\ rag_score = Blended /\ rag_score > 0

(***************************************************************************)
(* C7                                                                      *)
(***************************************************************************)
\* C7: for a question classified GENERAL no collection query is issued, the
\* system prompt gets no evidence block, no no-evidence instruction and no
\* user background, the formatter returns the generated text unchanged, and
\* the result has sources = [], is_medical = false, used_rag = false,
\* rag_score = 0.
C7_GeneralPassThrough ==
    (pc # "classify" /\ ~is_medical) =>
        /\ \A i \in 1..Len(calls) : calls[i].op # "query"
        /\ GenerateCalls # {} => system_prompt = <<Block("persona", <<>>)>>
        /\ AnswerReturned =>
             /\ formatted_response = response
             /\ final_sources = <<>>
             /\ ~Val(metadata).is_medical
             /\ ~Val(metadata).used_rag
             /\ Val(metadata).rag_score = 0
        /\ (Done /\ AnswerReturned) => Val(reply).sources = <<>>

C7_Witness ==
    /\ Done /\ AnswerReturned /\ ~is_medical
    /\ conversation_history # <<>> /\ user_context # <<>>

(***************************************************************************)
(* C8                                                                      *)
(***************************************************************************)
\* C8: when no candidate node has an allow-listed source, retrieval returns no
\* context and used_rag is false, whatever the scores.
C8_DomainGate ==
    /\ (RagReturned /\ ~HasAllowListedCandidate) => IsNone(rag_context)
    /\ UsedRagReported

\* candidates without an allow-listed source and a blended score over 0.30
C8_Witness ==
    /\ RagReturned /\ all_results # <<>> /\ ~HasAllowListedCandidate
    /\ Blended >= SIM_THRESHOLD

(***************************************************************************)
(* C9                                                                      *)
(***************************************************************************)
\* C9: with an empty history one call of get_rag_context_weighted makes one
\* query per collection, two in all, the contextual score is 0 and the
\* blended score is primaryWeight * primaryScore.
C9_NoContextualQuery ==
    (RagReturned /\ conversation_history = <<>>) =>
        /\ Cardinality(QueryCalls("nhs")) = 1
        /\ Cardinality(QueryCalls("cancer_research")) = 1
        /\ contextual_score = 0
        /\ all_results # <<>> => final_score = PRIMARY_WEIGHT * PrimaryScore

C9_Witness ==
    /\ RagReturned /\ conversation_history = <<>> /\ all_results # <<>>
    /\ final_score >= SIM_THRESHOLD

(***************************************************************************)
(* C10                                                                     *)
(***************************************************************************)
IsSortedDesc(nodes) ==
    \A i, j \in 1..Len(nodes) : i < j => nodes[i].score >= nodes[j].score
SameNodes(a, b) ==
    /\ Len(a) = Len(b)
    /\ \A x \in {a[i] : i \in 1..Len(a)} :
         Cardinality({i \in 1..Len(a) : a[i] = x}) = Cardinality({i \in 1..Len(b) : b[i] = x})
C10_State ==
    RagReturned =>
        /\ Cardinality(PrimaryCalls("nhs")) = 1
        /\ Cardinality(PrimaryCalls("cancer_research")) = 1
        /\ PrimaryFailed("nhs") =>
             \A i \in 1..Len(all_results) : all_results[i].collection = "cancer_research"
        /\ PrimaryFailed("cancer_research") =>
             \A i \in 1..Len(all_results) : all_results[i].collection = "nhs"
        /\ best_score = PrimaryScore
        /\ all_results # <<>> =>
             /\ SameNodes(top_results, all_results) /\ IsSortedDesc(top_results)
             /\ \A u \in {NHS_URL, NHS_URL_2, CRUK_URL} :
                  Contains(sources, u) <=>
                     \E i \in 1..Len(top_results) : top_results[i].source = u
        /\ all_results = <<>> => (IsNone(rag_context) /\ rag_score = 0 /\ sources = <<>>)
\* a primary query that raises leaves the pool and the best score as they were
C10_Step ==
    (Len(calls') = Len(calls) + 1 /\ calls'[Len(calls')].op = "query"
        /\ calls'[Len(calls')].text = current_message /\ ~calls'[Len(calls')].ok)
      => (all_results' = all_results /\ best_score' = best_score)

\* C10: a failing primary query does not stop retrieval: the other collection
\* is queried, the pool, the primary score, the candidates and the sources
\* come from the surviving collection's nodes alone, as if the failed query
\* had returned nothing; with nothing pooled the result is (None, 0, []).
C10_CollectionFailureSkipped == []C10_State /\ [][C10_Step]_vars

C10_Witness ==
    /\ RagReturned /\ PrimaryFailed("cancer_research") /\ ~PrimaryFailed("nhs")
    /\ ~IsNone(rag_context)

(***************************************************************************)
(* C11                                                                     *)
(***************************************************************************)
AllPrimaryRaised == PrimaryFailed("nhs") /\ PrimaryFailed("cancer_research")
HasBlock(kind) == \E i \in 1..Len(system_prompt) : system_prompt[i].kind = kind
\* the generation call returned a message without content
GenerationNull == GenerateCalls # {} /\ ~GenerationRaised /\ IsNone(response)
\* the texts of the bulleted lines of a text
BulletTexts(text) ==
    {Strip(Tail(Strip(text[i]))) :
        i \in {j \in 1..Len(text) : Strip(text[j]) # <<>> /\ Strip(text[j])[1] = "-"}}
SetOf(s) == {s[i] : i \in 1..Len(s)}
NoteAppended ==
    Val(formatted_response)[Len(Val(formatted_response))] = <<NOTE>>

\* C11: for a MEDICAL question whose collection queries all raise, the
\* request completes: retrieval returns (None, 0, []), the generator is
\* called once with the no-evidence instruction, used_rag is false and
\* rag_score 0, and the formatter returns citations taken from the answer's
\* bullets or else appends the general-knowledge note.  (The generation call
\* returns a text or raises.)
C11_TotalRetrievalFailure ==
    (is_medical /\ AllPrimaryRaised) =>
        /\ Cardinality(QueryCalls("nhs")) = 1
        /\ Cardinality(QueryCalls("cancer_research")) = 1
        /\ IsNone(rag_context) /\ rag_score = 0 /\ sources = <<>>
        /\ GenerateCalls # {} =>
             /\ Cardinality(GenerateCalls) = 1
             /\ HasBlock("no_evidence") /\ ~HasBlock("evidence")
        /\ (Done /\ ~GenerationNull) => (AnswerReturned /\ Val(reply).kind = "reply")
        /\ AnswerReturned =>
             /\ ~Val(metadata).used_rag /\ Val(metadata).rag_score = 0
             /\ \/ /\ final_sources # <<>>
                   /\ SetOf(final_sources) \subseteq BulletTexts(Val(response))
                   /\ ~NoteAppended
                \/ /\ final_sources = <<>>
                   /\ NoteAppended

C11_Witness ==
    /\ Done /\ is_medical /\ AllPrimaryRaised /\ AnswerReturned
    /\ final_sources # <<>>

(***************************************************************************)
(* C12                                                                     *)
(***************************************************************************)
NoDuplicates(s) == \A i, j \in 1..Len(s) : i # j => s[i] # s[j]

\* C12: the sources answer() returns have no duplicates; they are the
\* retrieval URLs when, and only when, evidence was used, and otherwise the
\* citations taken from the generated answer (none if it has none).
C12_SourcesAreCited ==
    AnswerReturned =>
        /\ NoDuplicates(final_sources)
        /\ Val(metadata).used_rag => SetOf(final_sources) = SetOf(sources)
        /\ ~Val(metadata).used_rag =>
             SetOf(final_sources) \subseteq BulletTexts(Val(response))

(***************************************************************************)
(* C13                                                                     *)
(***************************************************************************)
\* the positions of the first occurrences in s
FirstOccurrences(s) == {i \in 1..Len(s) : \A j \in 1..(i - 1) : s[j] # s[i]}
\* out lists the first occurrences of s, in their order
IsFirstOccurrenceList(out, s) ==
    /\ Len(out) = Cardinality(FirstOccurrences(s))
    /\ \A k \in 1..Len(out) :
         \E i \in FirstOccurrences(s) :
            /\ Cardinality({j \in FirstOccurrences(s) : j <= i}) = k
            /\ out[k] = s[i]
\* the lines appended to the generated text
AppendedLines ==
    SubSeq(Val(formatted_response), Len(Val(response)) + 1, Len(Val(formatted_response)))

\* C13: for an evidence-backed medical answer the returned sources are the
\* retrieval sources without repeats, first occurrences in order; removing
\* repeats again changes nothing; the appended knowledge-base section lists
\* exactly these sources, one bullet each, in that order.
C13_DedupPreservesOrder ==
    (AnswerReturned /\ Val(metadata).used_rag) =>
        /\ IsFirstOccurrenceList(final_sources, sources)
        /\ Dedup(final_sources) = final_sources
        /\ SubSeq(Val(formatted_response), 1, Len(Val(response))) = Val(response)
        /\ Len(AppendedLines) = Len(final_sources) + 3
        /\ AppendedLines[1] = <<>> /\ AppendedLines[2] = <<KB_HEADER>>
        /\ \A k \in 1..Len(final_sources) :
             AppendedLines[k + 2] =
                <<"-", " ", "[">> \o Tail(final_sources[k]) \o <<"](">>
                    \o final_sources[k] \o <<")">>

\* retrieval sources of the shape [A, B, A, C]
C13_Witness ==
    /\ AnswerReturned /\ Val(metadata).used_rag
    /\ Len(sources) = 4 /\ sources[1] = sources[3] /\ sources[2] # sources[1]
    /\ sources[4] \notin {sources[1], sources[2]}
    /\ Len(final_sources) = 3

(***************************************************************************)
(* C14                                                                     *)
(***************************************************************************)
BlocksOf(kind) == {i \in 1..Len(system_prompt) : system_prompt[i].kind = kind}

\* C14: every generation call gets exactly one of: the evidence block (when
\* there is evidence text), the no-evidence instruction (medical, no evidence
\* text), nothing (non-medical); never two, and a medical call never none.
C14_OneAugmentation ==
    GenerateCalls # {} =>
        /\ Cardinality(BlocksOf("evidence")) + Cardinality(BlocksOf("no_evidence")) <= 1
        /\ HasBlock("evidence") <=> (~IsNone(rag_context) /\ Val(rag_context) # <<>>)
        /\ HasBlock("evidence") =>
             system_prompt[CHOOSE i \in BlocksOf("evidence") : TRUE].body = Val(rag_context)
        /\ HasBlock("no_evidence") <=>
             (is_medical /\ (IsNone(rag_context) \/ Val(rag_context) = <<>>))
        /\ ~is_medical => (~HasBlock("evidence") /\ ~HasBlock("no_evidence"))
        /\ is_medical => (HasBlock("evidence") \/ HasBlock("no_evidence"))

C14_Witness == GenerateCalls # {} /\ is_medical /\ HasBlock("evidence")

(***************************************************************************)
(* C15                                                                     *)
(***************************************************************************)
\* C15: the user-background block is in the prompt exactly when the question
\* is medical and the user context is not empty, whichever augmentation the
\* prompt has; it carries the user context unchanged; a user without storage
\* consent never has one.
C15_BackgroundIffMedicalAndContext ==
    GenerateCalls # {} =>
        /\ HasBlock("background") <=> (is_medical /\ user_context # <<>>)
        /\ HasBlock("background") =>
             /\ Cardinality(BlocksOf("background")) = 1
             /\ system_prompt[Len(system_prompt)] = Block("background", user_context)
             /\ user.consent_to_data_storage
        /\ ~user.consent_to_data_storage => ~HasBlock("background")

C15_Witness ==
    /\ GenerateCalls # {} /\ HasBlock("background") /\ HasBlock("no_evidence")
    /\ Len(user_context) > 3

StageRank(stage) ==
    CASE stage = "classify" -> 0
      [] stage = "rag_nhs" -> 1
      [] stage = "rag_cancer" -> 2
      [] stage = "ctx_nhs" -> 3
      [] stage = "ctx_cancer" -> 4
      [] stage = "generate" -> 5
      [] stage = "format" -> 6
      [] stage \in {"answer_returned", "answer_raised"} -> 7
      [] stage = "done" -> 8
C17_State ==
    /\ pc = "answer_raised" => GenerationNull
    /\ (pc \in {"answer_returned", "done"} /\ ~GenerationNull) =>
          (AnswerReturned /\ ~IsNone(formatted_response))
    /\ pc = "classify" => ENABLED Classify
    /\ pc = "rag_nhs" => ENABLED QueryNhs
    /\ pc = "rag_cancer" => ENABLED QueryCancer
    /\ pc = "ctx_nhs" => ENABLED CtxQueryNhs
    /\ pc = "ctx_cancer" => ENABLED CtxQueryCancer
    /\ pc = "generate" => ENABLED Generate
    /\ pc = "format" => ~IsNone(response)
    /\ pc = "answer_returned" => ENABLED ChatReturn
    /\ pc = "answer_raised" => ENABLED ChatExcept
    /\ Len(calls) <= 6
C17_Step == StageRank(pc') > StageRank(pc)
C17_AlwaysReturns == []C17_State /\ [][C17_Step]_vars

\* the classification, one primary query, both contextual queries and the
\* generation all raised
C17_Witness ==
    /\ Done /\ AnswerReturned /\ Val(reply).kind = "reply"
    /\ ClassifyRaised /\ GenerationRaised
    /\ PrimaryFailed("cancer_research") /\ ~PrimaryFailed("nhs")
    /\ \A t \in {"nhs", "cancer_research"} :
          /\ ContextCalls(t) # {}
          /\ \A i \in ContextCalls(t) : ~calls[i].ok

(***************************************************************************)
(* C18                                                                     *)
(***************************************************************************)
Collections == {"nhs", "cancer_research"}
AllQueryCalls == QueryCalls("nhs") \cup QueryCalls("cancer_research")
C18_State ==
    /\ calls # <<>> => calls[1].op = "classify"
    /\ Cardinality(ClassifyCalls) = (IF pc = "classify" THEN 0 ELSE 1)
    /\ \A t \in Collections :
          /\ Cardinality(PrimaryCalls(t)) <= 1
          /\ Cardinality(ContextCalls(t)) <= 1
          /\ \A i \in PrimaryCalls(t), j \in ContextCalls("nhs") \cup ContextCalls("cancer_research") :
                i < j
    /\ ~is_medical => AllQueryCalls = {}
    /\ Cardinality(GenerateCalls) =
          (IF pc \in {"format", "answer_returned", "answer_raised", "done"} THEN 1 ELSE 0)
    /\ \A g \in GenerateCalls :
          /\ g = Len(calls)
          /\ \A i \in ClassifyCalls \cup AllQueryCalls : i < g
    /\ ~IsNone(formatted_response) => (GenerateCalls # {} /\ ~IsNone(response))
    /\ (pc \in {"answer_returned", "done"} /\ ~GenerationNull) => ~IsNone(formatted_response)
C18_Step ==
    /\ ~IsNone(formatted_response) =>
          UNCHANGED <<formatted_response, final_sources, metadata, calls>>
    /\ ~IsNone(response) => UNCHANGED <<response, calls>>

\* C18: the classification is called once, before any query; each
\* collection gets at most one primary and one contextual query, primary
\* before contextual, none for a non-medical question; the generation is
\* called once, after every query; the formatter runs once, after the
\* generation; nothing is called again after it failed.
C18_StageOrder == []C18_State /\ [][C18_Step]_vars

C18_Witness ==
    /\ Done /\ AnswerReturned
    /\ Len(calls) = 6
    /\ ~calls[1].ok /\ ~calls[2].ok /\ ~calls[6].ok
    /\ ContextCalls("nhs") = {4} /\ ContextCalls("cancer_research") = {5}

(***************************************************************************)
(* C19                                                                     *)
(***************************************************************************)
\* the candidates whose own score reaches the cut of 0.24, in their order
CandidatesAboveCut == SelectSeq(top_results, LAMBDA r : r.score >= 24)
ExpectedEvidence ==
    Join([i \in 1..Len(CandidatesAboveCut) |-> CandidatesAboveCut[i].text], "\n\n")
GatePasses == HasAllowListedCandidate /\ Blended >= SIM_THRESHOLD

\* C19 as stated: whenever the gate passes (an allow-listed candidate and a
\* blended score of at least 0.30) the evidence text is present, not empty,
\* and is the concatenation of the texts of the candidates scoring >= 0.24.
C19_AsStated ==
    (RagReturned /\ GatePasses) =>
        /\ ~IsNone(rag_context)
        /\ Val(rag_context) # <<>>
        /\ Val(rag_context) = ExpectedEvidence

\* C19: the candidates are the pooled nodes (at most six) in descending score
\* order; whenever retrieval returns an evidence text it is the texts of
\* exactly the candidates scoring >= 0.24, in that order, joined by blank
\* lines; a text is returned exactly when the gate passes and some candidate
\* scores >= 0.24.
C19_EvidenceText ==
    RagReturned =>
        /\ Len(top_results) <= TOP_RESULTS
        /\ IsSortedDesc(top_results)
        /\ SameNodes(top_results, all_results)
        /\ ~IsNone(rag_context) <=> (GatePasses /\ CandidatesAboveCut # <<>>)
        /\ ~IsNone(rag_context) => Val(rag_context) = ExpectedEvidence

\* a candidate exactly at the cut is included, one below it is left out
C19_Witness ==
    /\ RagReturned /\ ~IsNone(rag_context)
    /\ \E i, j \in 1..Len(top_results) :
          /\ top_results[i].score = 24 /\ top_results[j].score = 20
          /\ Contains(Val(rag_context), top_results[i].text[1])
          /\ ~Contains(Val(rag_context), top_results[j].text[1])

(***************************************************************************)
(* C20                                                                     *)
(***************************************************************************)
\* C20: the sources retrieval returns are, as a set, the sources of the
\* candidates on an allow-listed domain; every pooled node stays a
\* candidate, and a candidate with no source or another domain's source has
\* its text in the evidence text when its score reaches the cut.
C20_SourcesAreAllowListed ==
    RagReturned =>
        /\ SetOf(sources) =
              {top_results[i].source :
                  i \in {j \in 1..Len(top_results) : OnAllowList(top_results[j].source)}}
        /\ SameNodes(top_results, all_results)
        /\ ~IsNone(rag_context) =>
              \A i \in 1..Len(top_results) :
                 (~OnAllowList(top_results[i].source) /\ top_results[i].score >= 24) =>
                    \A k \in 1..Len(top_results[i].text) :
                       Contains(Val(rag_context), top_results[i].text[k])

C20_Witness ==
    /\ RagReturned /\ ~IsNone(rag_context)
    /\ \E i \in 1..Len(top_results) :
          /\ top_results[i].source = OTHER_URL
          /\ top_results[i].text # <<>>
          /\ Contains(Val(rag_context), top_results[i].text[1])
    /\ \E i \in 1..Len(top_results) : top_results[i].source = NO_SOURCE
    /\ ~Contains(sources, OTHER_URL) /\ ~Contains(sources, NO_SOURCE)

(***************************************************************************)
(* C21                                                                     *)
(***************************************************************************)
\* "role: content" of the i-th turn of the history
TurnText(i) ==
    <<conversation_history[i].role, ":">> \o conversation_history[i].content
\* the last min(2, length) turns, oldest first, then the current question
ExpectedContextualQuery ==
    LET n == Len(conversation_history)
    IN <<"Context:">>
          \o (IF n >= 2 THEN TurnText(n - 1) \o <<"|">> ELSE <<>>)
          \o TurnText(n)
          \o <<"|", "Current:">> \o current_message
AllContextCalls == ContextCalls("nhs") \cup ContextCalls("cancer_research")
C21_State ==
    /\ \A i \in AllContextCalls :
          /\ conversation_history # <<>>
          /\ calls[i].text = ExpectedContextualQuery
    /\ RagReturned =>
          /\ (conversation_history # <<>> /\ all_results # <<>>) =>
                \A t \in Collections : Cardinality(ContextCalls(t)) = 1
          /\ contextual_score = MaxIn(SetOf(context_results))
          /\ (\A i \in AllContextCalls : ~calls[i].ok) =>
                (context_results = <<>> /\ contextual_score = 0)
          /\ final_score = PRIMARY_WEIGHT * best_score + CONTEXT_WEIGHT * contextual_score
          /\ best_score = PrimaryScore
          /\ SameNodes(top_results, all_results)
          /\ SetOf(sources) =
                {top_results[i].source :
                    i \in {j \in 1..Len(top_results) : OnAllowList(top_results[j].source)}}
          /\ ~IsNone(rag_context) => Val(rag_context) = ExpectedEvidence
C21_Step ==
    pc \in {"ctx_nhs", "ctx_cancer"} =>
        /\ UNCHANGED <<all_results, best_score, top_results>>
        /\ Len(calls') = Len(calls) + 1
        /\ IF calls'[Len(calls')].ok
           THEN /\ Len(context_results') >= Len(context_results)
                /\ SubSeq(context_results', 1, Len(context_results)) = context_results
           ELSE context_results' = context_results

ExpectedQuestion ==
    IF original_query # None /\ original_query # Some(<<>>)
    THEN original_query[1] ELSE query
C22_State ==
    pc = "generate_done" =>
        /\ Len(gpt_messages) = Len(conversation_history) + 2
        /\ gpt_messages[1].role = "system"
        /\ \A i \in 1..Len(conversation_history) :
              gpt_messages[i + 1] = conversation_history[i]
        /\ gpt_messages[Len(gpt_messages)] =
              [role |-> "user", content |-> ExpectedQuestion]
        /\ Cardinality({i \in 1..Len(gpt_messages) :
                          gpt_messages[i].content = ExpectedQuestion}) = 1
        /\ \A i \in GenerateCalls : calls[i].text = ExpectedQuestion
C22_Step == conversation_history' = conversation_history

\* C22: the messages of the generation call are one system message, the
\* history turns in order and unchanged, then one user turn with the
\* current question (the original query if given, else the query): history
\* length plus 2 messages; the history itself is not modified.
C22_MessageSequence == []C22_State /\ [][C22_Step]_vars

\* three turns of history and no original query: the last turn is the query
C22_Witness ==
    /\ pc = "generate_done" /\ Len(conversation_history) = 3
    /\ original_query = None
    /\ Len(gpt_messages) = 5
    /\ gpt_messages[5].content = query /\ query # current_message

(***************************************************************************)
(* C23                                                                     *)
(***************************************************************************)
\* a line of the text is a Sources header in some letter case
HasSourcesHeader(text) ==
    \E i \in 1..Len(text) :
        Strip(text[i]) # <<>> /\ Strip(text[i])[1] \in {"Sources:", "sources:", "SOURCES:"}
HasGeneralHeader(text) ==
    \E i \in 1..Len(text) : Contains(text[i], GENERAL_HEADER)

\* C23: for a medical answer without evidence the note is appended exactly
\* when no bulleted entry was extracted from the answer's Sources section;
\* when one was, no note is appended, the section header is replaced by the
\* general-knowledge header whatever its letter case, and the returned
\* sources are the extracted entries.
C23_NoteIffNothingExtracted ==
    (AnswerReturned /\ is_medical /\ ~Val(metadata).used_rag) =>
        /\ NoteAppended <=> BulletTexts(Val(response)) = {}
        /\ BulletTexts(Val(response)) # {} =>
              /\ HasGeneralHeader(Val(formatted_response))
              /\ ~HasSourcesHeader(Val(formatted_response))
              /\ SetOf(final_sources) = BulletTexts(Val(response))

(***************************************************************************)
(* C24                                                                     *)
(***************************************************************************)
\* the pool had the Cancer Research UK results arrived before the NHS ones
SwappedPool ==
    SelectSeq(all_results, LAMBDA r : r.collection = "cancer_research")
        \o SelectSeq(all_results, LAMBDA r : r.collection = "nhs")
\* what get_rag_context_weighted makes of a pool, the contextual score given
OutcomeOf(pool) ==
    LET top == TopResults(pool)
        r   == RagReturn(top, BlendedScore(MaxIn(ScoresOf(pool)), contextual_score),
                         Links(top))
    IN [top |-> top, context |-> r.context, score |-> r.score, sources |-> r.sources]
ActualOutcome ==
    [top |-> top_results, context |-> rag_context, score |-> rag_score,
     sources |-> sources]
\* two pooled nodes of different collections have the same score
CrossCollectionTie ==
    \E i, j \in 1..Len(all_results) :
        /\ all_results[i].collection # all_results[j].collection
        /\ all_results[i].score = all_results[j].score

\* C24 as stated: the candidates' order, the evidence text, the blended score
\* and the source list are the same for either arrival order of the two
\* collections' results, ties between collections included.
C24_AsStated ==
    (RagReturned /\ all_results # <<>>) => OutcomeOf(SwappedPool) = ActualOutcome

\* C24: for either arrival order the blended score, the candidates as a
\* collection of nodes, the sources as a set and the presence of an evidence
\* text are the same; candidate order, evidence text and source list are the
\* same too unless two nodes of different collections have equal scores.
C24_MergeOrder ==
    (RagReturned /\ all_results # <<>>) =>
        /\ OutcomeOf(all_results) = ActualOutcome
        /\ OutcomeOf(SwappedPool).score = rag_score
        /\ SameNodes(OutcomeOf(SwappedPool).top, top_results)
        /\ SetOf(OutcomeOf(SwappedPool).sources) = SetOf(sources)
        /\ IsNone(OutcomeOf(SwappedPool).context) <=> IsNone(rag_context)
        /\ ~CrossCollectionTie => OutcomeOf(SwappedPool) = ActualOutcome

\* both collections answered, without a tie, and evidence was returned
C24_Witness ==
    /\ RagReturned /\ ~IsNone(rag_context) /\ ~CrossCollectionTie
    /\ \E i, j \in 1..Len(all_results) :
          /\ all_results[i].collection = "nhs"
          /\ all_results[j].collection = "cancer_research"
          /\ i < j /\ all_results[i].score < all_results[j].score
    /\ Len(sources) >= 2

(***************************************************************************)
(* C27                                                                     *)
(***************************************************************************)
\* the knowledge-base section has been appended to the answer
KnowledgeBaseSectionAppended ==
    \E i \in 1..Len(Val(formatted_response)) :
        Val(formatted_response)[i] = <<KB_HEADER>>

\* C27: in every result of answer() used_rag is true exactly when the prompt
\* of the generation call had the evidence block, and the knowledge-base
\* section is appended only then.
C27_UsedRagMatchesPrompt ==
    AnswerReturned =>
        /\ Val(metadata).used_rag <=> HasBlock("evidence")
        /\ KnowledgeBaseSectionAppended => HasBlock("evidence")

(***************************************************************************)
(* C28                                                                     *)
(***************************************************************************)
\* C28: in every result of answer(): used_rag implies is_medical, at least
\* one source and a score of at least 0.30; a non-medical result has used_rag
\* false, score 0 and no sources; sources_count is the length of the returned
\* sources and conversation_length the length of the history passed in.
C28_MetadataInvariants ==
    AnswerReturned =>
        /\ Val(metadata).used_rag =>
              /\ Val(metadata).is_medical
              /\ Val(metadata).sources_count >= 1
              /\ Val(metadata).rag_score >= SIM_THRESHOLD
        /\ ~Val(metadata).is_medical =>
              /\ ~Val(metadata).used_rag
              /\ Val(metadata).rag_score = 0
              /\ final_sources = <<>>
        /\ Val(metadata).is_medical = is_medical
        /\ Val(metadata).sources_count = Len(final_sources)
        /\ Val(metadata).conversation_length = Len(conversation_history)

\* evidence used with a score exactly at the threshold, after three turns
C28_Witness ==
    /\ AnswerReturned /\ Val(metadata).used_rag
    /\ Val(metadata).rag_score = SIM_THRESHOLD
    /\ Len(conversation_history) = 3
    /\ Len(sources) > Len(final_sources)

(***************************************************************************)
(* register() and update_me() over the users table.  A user id stands for  *)
(* the account (its e-mail address); of the nine profile fields the full   *)
(* name and the long-term conditions vary, the others are handled alike.   *)
(***************************************************************************)
AuthResponse(op, uid, status, detail) ==
    [op |-> op, user_id |-> uid, status |-> status, detail |-> detail]

\* RegisterIn, auth.py lines 27-37
RegisterBodies ==
    [consent_to_data_storage : BOOLEAN,
     profile : {Profile(<<>>, <<>>, <<>>), Profile(<<"Ann">>, <<"asthma">>, <<>>)}]

\* UserUpdateIn, auth.py lines 87-98: None is a field the body does not set,
\* Some(<<>>) a field set to null
UpdateBodies ==
    [consent_to_data_storage : {None, Some(TRUE), Some(FALSE)},
     full_name : {None, Some(<<>>), Some(<<"Ann">>)},
     long_term_conditions : {None, Some(<<"asthma">>)}]

\* auth.py lines 48-63: the profile is kept only with consent
RegisteredUser(body) ==
    IF body.consent_to_data_storage
    THEN UserRecord(TRUE, body.profile)
    ELSE UserRecord(FALSE, Profile(<<>>, <<>>, <<>>))

\* auth.py lines 106-110: every field the body sets is assigned
UpdatedUser(u, body) ==
    [consent_to_data_storage |->
        IF body.consent_to_data_storage = None THEN u.consent_to_data_storage
        ELSE Val(body.consent_to_data_storage),
     profile |->
        [u.profile EXCEPT
            !.full_name = IF body.full_name = None THEN @ ELSE Val(body.full_name),
            !.long_term_conditions = IF body.long_term_conditions = None THEN @
                                     ELSE Val(body.long_term_conditions)]]

\* auth.py lines 40-65
Register(uid, body) ==
    /\ Len(http) < MaxAuthRequests
    /\ IF db.users[uid] # None
       THEN /\ db' = db
            /\ http' = Append(http, AuthResponse("register", uid, 200, "User exists"))
       ELSE /\ db' = [db EXCEPT !.users[uid] = Some(RegisteredUser(body))]
            /\ http' = Append(http, AuthResponse("register", uid, 200, "ok"))
    /\ UNCHANGED <<req, answerVars>>

\* auth.py lines 100-112, for a logged-in user
UpdateMe(uid, body) ==
    /\ Len(http) < MaxAuthRequests
    /\ db.users[uid] # None
    /\ db' = [db EXCEPT !.users[uid] = Some(UpdatedUser(Val(@), body))]
    /\ http' = Append(http, AuthResponse("update_me", uid, 200, "ok"))
    /\ UNCHANGED <<req, answerVars>>

InitAuth ==
    /\ AnswerIdle
    /\ db = EmptyDb
    /\ req = None
    /\ http = <<>>

NextAuth ==
    \/ \E uid \in UserIds, body \in RegisterBodies : Register(uid, body)
    \/ \E uid \in UserIds, body \in UpdateBodies : UpdateMe(uid, body)

SpecAuth == InitAuth /\ [][NextAuth]_vars

(***************************************************************************)
(* Claims about the HTTP handlers                                          *)
(***************************************************************************)
\* the ids of the sessions in d
SessionIds(d) == {d.sessions[i].id : i \in 1..Len(d.sessions)}

\* the ids of the sessions in d that uid does not own
SessionsOfOthers(d, uid) ==
    {d.sessions[i].id : i \in {j \in 1..Len(d.sessions) : d.sessions[j].user_id # uid}}

\* the last k elements of a sequence
LastOf(seq, k) == SubSeq(seq, Len(seq) - Min(k, Len(seq)) + 1, Len(seq))

\* a chat request has read its history and answer() has not returned yet
AnswerPending == req # None /\ Val(req).stage = "answer"

\* C25: for a chat request on a session holding n stored messages, the history
\* passed to answer() is the most recent min(10, n) messages of the session, in
\* chronological order
C25_HistoryIsMostRecent ==
    AnswerPending =>
        LET held == SessionMessages(db.messages, Val(req).session_id)
            recent == LastOf(held, HISTORY_WINDOW)
        IN /\ Len(Val(req).history) = Len(recent)
           /\ \A i \in 1..Len(recent) :
                 /\ Val(req).history[i].content = recent[i].content
                 /\ Val(req).history[i].role = recent[i].role

\* C26: no committed database state holds a request's user message without the
\* assistant (or error) message that replies to it
C26_UserMessageWithReply ==
    \A i \in 1..Len(db.messages) :
        db.messages[i].role = "user" =>
            \E j \in 1..Len(db.messages) :
                /\ db.messages[j].id = db.messages[i].id + 1
                /\ db.messages[j].session_id = db.messages[i].session_id
                /\ db.messages[j].role = "assistant"

\* the user whose request the step serves
Actor == IF http' # http THEN http'[Len(http')].user_id ELSE Val(req').user_id

C30_State ==
    req # None =>
        \E i \in 1..Len(db.sessions) :
            db.sessions[i] = SessionRow(Val(req).session_id, Val(req).user_id)

C30_Step ==
    LET others == SessionsOfOthers(db, Actor)
        kept(rows) == SelectSeq(rows, LAMBDA r : r.id \in others)
        of_others(rows) == SelectSeq(rows, LAMBDA m : m.session_id \in others)
        sent == http'[Len(http')]
    IN /\ kept(db'.sessions) = kept(db.sessions)
       /\ of_others(db'.messages) = of_others(db.messages)
       /\ http' # http =>
            /\ \A i \in 1..Len(sent.messages) : sent.messages[i].session_id \notin others
            /\ (sent.op \in {"get", "delete"} /\ sent.session_id \in others) =>
                    (sent.status = 404 /\ db' = db)
       /\ (req = None /\ req' # None) =>
            /\ Val(req').session_id \notin others
            /\ \A i \in 1..Len(Val(req').history) :
                  \E k \in 1..Len(db.messages) :
                      /\ db.messages[k].content = Val(req').history[i].content
                      /\ db.messages[k].session_id \notin others
            /\ (Val(req').requested # None /\ Val(Val(req').requested) \in others) =>
                  /\ Val(req').session_id \notin SessionIds(db)
                  /\ Val(req').history = <<>>
                  /\ SessionRow(Val(req').session_id, Actor) \in
                        {db'.sessions[i] : i \in 1..Len(db'.sessions)}

\* C30: a request by one user never reads, appends to or deletes messages of a
\* session the other user owns; a chat request naming such a session starts a
\* new session with empty history; get and delete on such a session answer 404
\* and change nothing
C30_SessionIsolation == []C30_State /\ [][C30_Step]_vars

\* user 2 was refused the messages of user 1's session and is now chatting
\* after naming that session
C30_Witness ==
    /\ req # None
    /\ Val(req).user_id = 2
    /\ Val(req).requested = Some(1)
    /\ Val(req).session_id # 1
    /\ SessionRow(1, 1) \in {db.sessions[i] : i \in 1..Len(db.sessions)}
    /\ SessionMessages(db.messages, 1) # <<>>
    /\ \E i \in 1..Len(http) : http[i] = Response("get", 2, 404, 1, <<>>)

\* C29: a registered user whose consent_to_data_storage is false has no
\* personal profile data stored
C29_NoProfileWithoutConsent ==
    \A uid \in UserIds :
        (db.users[uid] # None /\ ~Val(db.users[uid]).consent_to_data_storage) =>
            Val(db.users[uid]).profile = Profile(<<>>, <<>>, <<>>)

====
